---- MODULE Spec2Model ----
(***************************************************************************)
(* Models of the components of the repository, one specification each:     *)
(*   Spec, ChipSpec  StoryWizard (src/components/ChatAssistant.tsx, lines  *)
(*                   526-976): the SELECT / WIZARD state machine over step *)
(*                   and the answers map, the option chips, the quick      *)
(*                   analysis and the file upload of the intake step       *)
(*   InfoSpec        InfographicStudio (src/unnamed/part_000): the plan    *)
(*                   and the per-item image generation requests            *)
(*   DocSpec         ChatRichText (src/components/ChatAssistant.tsx, lines *)
(*                   6-59): the rendering of a message text                *)
(*   GalSpec         ImageStudio (src/components/ImageStudio.tsx): the     *)
(*                   gallery of saved images                               *)
(*   ChatSpec        ChatSection (src/components/ChatAssistant.tsx, lines  *)
(*                   61-262): the chat sessions                            *)
(*   MountSpec       the load effects of ImageStudio and ChatSection: what *)
(*                   the components hold once local storage was read       *)
(* A component's actions leave the variables of the other components alone.*)
(***************************************************************************)
EXTENDS Integers, Sequences, FiniteSets, TLC

(* ------------------------------ bounds --------------------------------- *)

\* number of times the textarea is emptied in one run
MaxClears == 1

\* longest answer an option chip may build in a wizard run (Spec)
MaxAnswerLen == 2

\* number of answer-changing chip selections in a chip run (ChipSpec)
MaxChips == 2

\* strings typed into the textarea
TextInputs == {"", "a"}

\* texts a read file may hold ("" is an empty file)
UploadTexts == {"", "u"}

\* advisory texts the quick-analysis call may return
Feedbacks == {"fb"}

\* answers the current question holds when a chip run starts (ChipSpec)
ChipTexts == {"", "a", "10", "Adult Fiction, a", "3,000 words"}

(* ------------------------------ QUESTIONS ------------------------------ *)

QUESTIONS ==
  << [id |-> "corePremise",     options |-> <<>>],
     [id |-> "genre",           options |-> <<"Science Fiction", "High Fantasy", "Noir Mystery",
                                              "Psychological Horror", "Historical Romance">>],
     [id |-> "tone",            options |-> <<"Dark and gritty", "Whimsical and lighthearted",
                                              "High-stakes suspense", "Melancholic and introspective">>],
     [id |-> "narrativeStyle",  options |-> <<"First-person perspective", "Third-person limited",
                                              "Third-person omniscient", "Journal entries and letters">>],
     [id |-> "targetAudience",  options |-> <<"Young Adult (14-18)", "Adult Fiction", "Middle Grade (8-12)">>],
     [id |-> "lengthStructure", options |-> <<"3,000 words", "10,000 words", "25,000 words">>],
     [id |-> "chapterCount",    options |-> <<"1", "3", "5", "10", "20">>],
     [id |-> "keyElements",     options |-> <<>>],
     [id |-> "complexity",      options |-> <<"Straightforward plot, focus on action",
                                              "One subplot, moderate descriptive depth",
                                              "Complex interwoven plots, hyper-realistic detail">>],
     [id |-> "endingType",      options |-> <<"Shocking twist ending", "Triumphant resolution",
                                              "Tragic downfall", "Ambiguous open ending">>],
     [id |-> "constraints",     options |-> <<>>] >>

\* QUESTIONS.length
N == Len(QUESTIONS)

\* the reserved key of the intake step
ExistingContent == "existingContent"

(* ------------------------------ helpers -------------------------------- *)

\* null and a present string, for quickFeedback: string | null
Null == <<>>
Some(s) == <<s>>

\* mutant: duplicates are suppressed by comparing the whole answer
IncludesWholeAnswer(s, t) == s = t

\* String.prototype.includes
Includes(s, t) ==
  \E i \in 0..(Len(s) - Len(t)) : SubSeq(s, i + 1, i + Len(t)) = t

\* answers[k] is truthy: the key is present and its string is not empty
Truthy(ans, k) == k \in DOMAIN ans /\ ans[k] # ""

\* (answers[k] as string) || ''
ValOrEmpty(ans, k) == IF Truthy(ans, k) THEN ans[k] ELSE ""

\* { ...prev, [k]: v }
Put(ans, k, v) == [x \in (DOMAIN ans) \cup {k} |-> IF x = k THEN v ELSE ans[x]]

\* the object literal {}
EmptyAnswers == [x \in {} |-> ""]

\* QUESTIONS[s]: the array is indexed from 0, the sequence from 1
Question(s) == QUESTIONS[s + 1]

\* the id of the question shown at step s (currentQ.id)
CurrentId(s) == IF s = -1 THEN ExistingContent ELSE Question(s).id

\* the option values of the question shown at step s (currentQ.options)
CurrentOptions(s) ==
  IF s = -1 THEN {} ELSE {Question(s).options[j] : j \in DOMAIN Question(s).options}

(* ------------------------------- state --------------------------------- *)

VARIABLES
  mode,            \* 'SELECT' | 'WIZARD'
  step,            \* -1 (intake), 0..N-1 (questions), N (review)
  answers,         \* Partial<StoryConfig>: present keys -> string
  isAnalyzing,     \* quick analysis busy flag
  isUploading,     \* file read busy flag
  quickFeedback,   \* Null or Some(text)
  analyzePending,  \* a quickAnalyze call is in flight
  uploadPending,   \* a file read is in flight
  clears,          \* number of times the textarea was emptied so far
  chips,           \* number of answer-changing chip selections so far (chip runs)
  last             \* history: the latest operation, its argument, its pre-state

\* the state of the other components, one record each
VARIABLES
  info,            \* InfographicStudio
  doc,             \* ChatRichText: the text prop and what is rendered
  gal,             \* ImageStudio: the gallery and the action in flight
  chat             \* ChatSection: the sessions and the send in flight

otherVars == <<info, doc, gal, chat>>

vars == <<mode, step, answers, isAnalyzing, isUploading, quickFeedback,
          analyzePending, uploadPending, clears, chips, last, otherVars>>

\* InfographicStudio after construction: no items, nothing in flight
InfoStart ==
  [items |-> <<>>, isPlanning |-> FALSE, planPending |-> FALSE,
   requests |-> <<>>, batches |-> <<>>, plans |-> 0]

\* ChatRichText before it is given a text
DocStart == [text |-> "", rendered |-> FALSE, out |-> <<>>]

\* no image, no id
None == 0

\* ImageStudio mounted on the stored gallery
GalMounted(stored) ==
  [gallery |-> stored, stored |-> stored, deleteId |-> None,
   isGenerating |-> FALSE, resultImage |-> None, pending |-> <<>>,
   clock |-> Len(stored), actions |-> 0, asks |-> 0,
   mounted |-> TRUE, unparsable |-> FALSE, deleted |-> {}]

GalStart == GalMounted(<<>>)

\* ChatSection mounted on the stored session list
ChatMounted(stored) ==
  [sessions |-> stored, stored |-> stored, currentSessionId |-> None,
   messages |-> <<>>, isLoading |-> FALSE, pending |-> <<>>,
   clock |-> Len(stored), sends |-> 0, deletes |-> 0,
   mounted |-> TRUE, unparsable |-> FALSE, deleted |-> {}]

ChatStart == ChatMounted(<<>>)

\* the other components as they are constructed
OthersStart ==
  /\ info = InfoStart
  /\ doc = DocStart
  /\ gal = GalStart
  /\ chat = ChatStart

\* the part of the state the views show and the handlers read
Snapshot == [mode |-> mode, step |-> step, answers |-> answers,
             quickFeedback |-> quickFeedback]

\* history: the operation taken, its argument (the value typed, the option
\* selected, the text read, the answers handed to onComplete) and the state
\* it started from
Did(op, arg) ==
  /\ last' = [op |-> op, arg |-> arg, pre |-> Snapshot]
  /\ UNCHANGED otherVars

WizardStart ==
  /\ mode = "SELECT"
  /\ step = 0
  /\ answers = EmptyAnswers
  /\ isAnalyzing = FALSE
  /\ isUploading = FALSE
  /\ quickFeedback = Null
  /\ analyzePending = FALSE
  /\ uploadPending = FALSE
  /\ clears = 0
  /\ chips = 0
  /\ last = [op |-> "init", arg |-> "", pre |-> Snapshot]

Init ==
  /\ WizardStart
  /\ OthersStart

(* ------------------------------- views --------------------------------- *)

\* mutant: the review branch is taken one step early
ReviewViewEarly == mode # "SELECT" /\ step >= N - 1

\* mutant: the Next button is never disabled
NextNeverDisabled == FALSE

\* mutant: the Next button is disabled on the questions only, not on the intake
NextDisabledOnQuestionsOnly ==
  step # -1 /\ ~(CurrentId(step) \in DOMAIN answers /\ answers[CurrentId(step)] # "")

\* which of the three render branches is on screen
SelectView == mode = "SELECT"
ReviewView == mode # "SELECT" /\ step = N
QuestionView == mode # "SELECT" /\ ~ReviewView

\* disabled={!answers[currentQ.id]} of the Next button
NextDisabled == ~Truthy(answers, CurrentId(step))

(* ------------------------------ handlers ------------------------------- *)

\* mutant: startNew keeps the answers of the earlier session
startNewKeepingAnswers ==
  /\ SelectView
  /\ mode' = "WIZARD"
  /\ step' = 0
  /\ Did("startNew", "")
  /\ UNCHANGED <<answers, isAnalyzing, isUploading, quickFeedback, analyzePending,
                 uploadPending, clears, chips>>

startNew ==
  /\ SelectView
  /\ answers' = EmptyAnswers
  /\ mode' = "WIZARD"
  /\ step' = 0
  /\ Did("startNew", "")
  /\ UNCHANGED <<isAnalyzing, isUploading, quickFeedback, analyzePending,
                 uploadPending, clears, chips>>

startContinue ==
  /\ SelectView
  /\ answers' = Put(EmptyAnswers, ExistingContent, "")
  /\ mode' = "WIZARD"
  /\ step' = -1
  /\ Did("startContinue", "")
  /\ UNCHANGED <<isAnalyzing, isUploading, quickFeedback, analyzePending,
                 uploadPending, clears, chips>>

cancel ==
  /\ SelectView
  /\ Did("cancel", "")
  /\ UNCHANGED <<mode, step, answers, isAnalyzing, isUploading, quickFeedback,
                 analyzePending, uploadPending, clears, chips>>

\* mutant: Next passes over the question that follows
NextStepSkipping(s) == IF s < N - 2 THEN s + 2 ELSE N

\* the step handleNext sets from step s
NextStep(s) == IF s < N - 1 THEN s + 1 ELSE N

\* the Next button; while it is disabled a click does nothing
handleNext ==
  /\ QuestionView
  /\ IF NextDisabled
       THEN /\ Did("next", "blocked")
            /\ UNCHANGED <<step, quickFeedback>>
       ELSE /\ Did("next", "")
            /\ step' = NextStep(step)
            /\ IF step < N - 1
                 THEN quickFeedback' = Null
                 ELSE UNCHANGED quickFeedback
  /\ UNCHANGED <<mode, answers, isAnalyzing, isUploading, analyzePending,
                 uploadPending, clears, chips>>

\* mutant: back from the first question never returns to the intake step
BackTargetNoIntake(m, s, ans) ==
  IF s = 0 /\ ~Truthy(ans, ExistingContent) THEN [mode |-> "SELECT", step |-> s]
  ELSE IF s = -1 THEN [mode |-> "SELECT", step |-> s]
  ELSE IF s > 0 THEN [mode |-> m, step |-> s - 1]
  ELSE [mode |-> m, step |-> s]

\* mutant: back decrements the step without the tests for step -1 and step > 0
BackTargetNoFloor(m, s, ans) ==
  IF s = 0 /\ ~Truthy(ans, ExistingContent) THEN [mode |-> "SELECT", step |-> s]
  ELSE [mode |-> m, step |-> s - 1]

\* the mode and step handleBack leaves, from mode m, step s and answers ans
BackTarget(m, s, ans) ==
  IF s = 0 /\ ~Truthy(ans, ExistingContent) THEN [mode |-> "SELECT", step |-> s]
  ELSE IF s = -1 THEN [mode |-> "SELECT", step |-> s]
  ELSE IF s = 0 /\ Truthy(ans, ExistingContent) THEN [mode |-> m, step |-> -1]
  ELSE IF s > 0 THEN [mode |-> m, step |-> s - 1]
  ELSE [mode |-> m, step |-> s]

\* mutant: going back drops the answer of the step that is left
handleBackDroppingAnswer ==
  /\ QuestionView \/ ReviewView
  /\ Did("back", "")
  /\ mode' = BackTarget(mode, step, answers).mode
  /\ step' = BackTarget(mode, step, answers).step
  /\ answers' = [k \in (DOMAIN answers) \ {IF step = N THEN "" ELSE CurrentId(step)} |-> answers[k]]
  /\ UNCHANGED <<isAnalyzing, isUploading, quickFeedback, analyzePending,
                 uploadPending, clears, chips>>

\* the Back button of the question view and "Edit Details" of the review view
handleBack ==
  /\ QuestionView \/ ReviewView
  /\ Did("back", "")
  /\ mode' = BackTarget(mode, step, answers).mode
  /\ step' = BackTarget(mode, step, answers).step
  /\ UNCHANGED <<answers, isAnalyzing, isUploading, quickFeedback, analyzePending,
                 uploadPending, clears, chips>>

\* setAnswers of handleChange, with the step the calling closure holds
SetAnswer(s, val) ==
  answers' = Put(answers, IF s = -1 THEN ExistingContent ELSE Question(s).id, val)

\* typing into the textarea
handleChange ==
  /\ QuestionView
  /\ \E val \in TextInputs :
       /\ SetAnswer(step, val)
       /\ Did("change", val)
       /\ IF val = "" /\ Truthy(answers, CurrentId(step))
            THEN clears < MaxClears /\ clears' = clears + 1
            ELSE UNCHANGED clears
  /\ UNCHANGED <<mode, step, isAnalyzing, isUploading, quickFeedback, analyzePending,
                 uploadPending, chips>>

\* mutant: a chip replaces the free text instead of appending to it
AppendedValueReplacing(cur, optValue) ==
  IF \E i \in 0..(Len(cur) - Len(optValue)) : SubSeq(cur, i + 1, i + Len(optValue)) = optValue
  THEN cur
  ELSE optValue

\* the answer appendOption leaves for current value cur and option optValue
AppendedValue(cur, optValue) ==
  IF Includes(cur, optValue) THEN cur
  ELSE IF cur # "" THEN cur \o ", " \o optValue
  ELSE optValue

\* appendOption(optValue) at the current question
AppendOption(optValue) ==
  LET currentVal == ValOrEmpty(answers, Question(step).id) IN
  /\ Did("chip", optValue)
  /\ IF Includes(currentVal, optValue)
       THEN UNCHANGED answers
       ELSE SetAnswer(step, AppendedValue(currentVal, optValue))
  /\ UNCHANGED <<mode, step, isAnalyzing, isUploading, quickFeedback, analyzePending,
                 uploadPending, clears>>

\* a click on an option chip of the current question
appendOption ==
  /\ QuestionView
  /\ \E optValue \in CurrentOptions(step) :
       /\ Len(AppendedValue(ValOrEmpty(answers, Question(step).id), optValue)) <= MaxAnswerLen
       /\ AppendOption(optValue)
  /\ UNCHANGED chips

\* "Quick AI Check": starts the quickAnalyze call
checkPremise ==
  /\ QuestionView
  /\ step = 0
  /\ ~isAnalyzing
  /\ Truthy(answers, "corePremise")
  /\ isAnalyzing' = TRUE
  /\ analyzePending' = TRUE
  /\ Did("checkPremise", answers["corePremise"])
  /\ UNCHANGED <<mode, step, answers, isUploading, quickFeedback, uploadPending,
                 clears, chips>>

\* quickAnalyze resolves: the rest of checkPremise runs
analyzeResolved ==
  /\ analyzePending
  /\ \E feedback \in Feedbacks :
       /\ quickFeedback' = Some(feedback)
       /\ Did("analyzeResolved", feedback)
  /\ isAnalyzing' = FALSE
  /\ analyzePending' = FALSE
  /\ UNCHANGED <<mode, step, answers, isUploading, uploadPending,
                 clears, chips>>

\* quickAnalyze rejects: checkPremise has no catch, the rest of it never runs
analyzeRejected ==
  /\ analyzePending
  /\ analyzePending' = FALSE
  /\ Did("analyzeRejected", "")
  /\ UNCHANGED <<mode, step, answers, isAnalyzing, isUploading, quickFeedback,
                 uploadPending, clears, chips>>

\* a file is chosen at the intake step: handleFileUpload up to its first await
handleFileUpload ==
  /\ QuestionView
  /\ step = -1
  /\ ~isUploading
  /\ isUploading' = TRUE
  /\ uploadPending' = TRUE
  /\ Did("upload", "")
  /\ UNCHANGED <<mode, step, answers, isAnalyzing, quickFeedback, analyzePending,
                 clears, chips>>

\* the file has been read: handleChange(text) of the closure of the intake
\* step (its step is -1) when the text is not empty, then the finally block
uploadRead ==
  /\ uploadPending
  /\ \E text \in UploadTexts :
       /\ IF text # "" THEN SetAnswer(-1, text) ELSE UNCHANGED answers
       /\ Did("uploadRead", text)
  /\ isUploading' = FALSE
  /\ uploadPending' = FALSE
  /\ UNCHANGED <<mode, step, isAnalyzing, quickFeedback, analyzePending,
                 clears, chips>>

\* reading the file throws: the catch block alerts, then the finally block
uploadFailed ==
  /\ uploadPending
  /\ isUploading' = FALSE
  /\ uploadPending' = FALSE
  /\ Did("uploadFailed", "")
  /\ UNCHANGED <<mode, step, answers, isAnalyzing, quickFeedback, analyzePending,
                 clears, chips>>

\* "Generate Story" of the review view: onComplete(answers)
submit ==
  /\ ReviewView
  /\ Did("submit", answers)
  /\ UNCHANGED <<mode, step, answers, isAnalyzing, isUploading, quickFeedback,
                 analyzePending, uploadPending, clears, chips>>

Next ==
  \/ startNew
  \/ startContinue
  \/ cancel
  \/ handleNext
  \/ handleBack
  \/ handleChange
  \/ appendOption
  \/ checkPremise
  \/ analyzeResolved
  \/ analyzeRejected
  \/ handleFileUpload
  \/ uploadRead
  \/ uploadFailed
  \/ submit

Spec == Init /\ [][Next]_vars

(* ----------------------------- chip runs ------------------------------- *)

\* the answers after startNew and typing "a" into questions 0..s-1 and t into
\* question s
TypedUpTo(s, t) ==
  [k \in {Question(j).id : j \in 0..s} |-> IF k = Question(s).id THEN t ELSE "a"]

\* a wizard standing at a question that has option chips, its answer typed
ChipInit ==
  /\ mode = "WIZARD"
  /\ step \in {s \in 0..(N - 1) : CurrentOptions(s) # {}}
  /\ answers \in {TypedUpTo(step, t) : t \in ChipTexts}
  /\ isAnalyzing = FALSE
  /\ isUploading = FALSE
  /\ quickFeedback = Null
  /\ analyzePending = FALSE
  /\ uploadPending = FALSE
  /\ clears = 0
  /\ chips = 0
  /\ last = [op |-> "change", arg |-> answers[Question(step).id], pre |-> Snapshot]
  /\ OthersStart

\* chip clicks only
ChipNext ==
  /\ QuestionView
  /\ \E optValue \in CurrentOptions(step) :
       /\ Includes(ValOrEmpty(answers, Question(step).id), optValue) \/ chips < MaxChips
       /\ AppendOption(optValue)
  /\ chips' = IF answers' # answers THEN chips + 1 ELSE chips

ChipSpec == ChipInit /\ [][ChipNext]_vars

(* ------------------------------ properties ----------------------------- *)

\* the operation last taken started in the wizard, at step s
StartedAt(op, s) == last.op = op /\ last.pre.mode = "WIZARD" /\ last.pre.step = s

\* the answer of key k before the operation last taken, '' when it had none
PreAnswer(k) == IF k \in DOMAIN last.pre.answers THEN last.pre.answers[k] ELSE ""

\* t occurs in s as a run of consecutive characters
OccursIn(t, s) == \E i \in 1..(Len(s) + 1) : \E j \in (i - 1)..Len(s) : SubSeq(s, i, j) = t

\* C1: back from Question(0) returns to Select when the existing-content
\* answer is empty (unset or ''), and to Intake (step -1, still in the wizard)
\* when it is non-empty; an existing-content key that is present at
\* Question(0) is always non-empty, so "present" leads to Intake as well.
C1_BackFromFirstQuestion ==
  StartedAt("back", 0) =>
    /\ PreAnswer(ExistingContent) = "" => mode = "SELECT"
    /\ PreAnswer(ExistingContent) # "" => mode = "WIZARD" /\ step = -1
    /\ ExistingContent \in DOMAIN last.pre.answers => mode = "WIZARD" /\ step = -1

C1_Witness ==
  /\ StartedAt("back", 0)
  /\ PreAnswer(ExistingContent) # ""
  /\ mode = "WIZARD" /\ step = -1

\* C2: at every question step i in 0..N-1, a click on Next while the answer
\* of question i is empty leaves step (and mode) unchanged.
C2_NextBlockedOnEmptyAnswer ==
  \A i \in 0..(N - 1) :
    (StartedAt("next", i) /\ PreAnswer(Question(i).id) = "") =>
      step = i /\ mode = "WIZARD"

C2_Witness ==
  /\ StartedAt("next", 1)
  /\ Question(1).id \in DOMAIN last.pre.answers
  /\ PreAnswer(Question(1).id) = ""
  /\ step = 1

C4_StepInRange ==
  /\ step \in -1..N
  /\ (StartedAt("next", N - 1) /\ PreAnswer(Question(N - 1).id) # "") => step = N

C4_Witness ==
  /\ StartedAt("next", N - 1)
  /\ step = N

\* C5: next and back leave the answers map exactly as it was.
C5_NavigationKeepsAnswers ==
  last.op \in {"next", "back"} => answers = last.pre.answers

C5_Witness ==
  /\ StartedAt("back", 2)
  /\ step = 1
  /\ \A i \in 0..2 : PreAnswer(Question(i).id) # ""
  /\ answers = last.pre.answers

\* C6: a click on the option chip that was clicked just before leaves the
\* answers as the first click left them.
C6_ChipTwiceIsChipOnce ==
  [][(last.op = "chip" /\ last'.op = "chip" /\ last'.arg = last.arg) => answers' = answers]_vars

C6_Witness ==
  /\ last.op = "chip"
  /\ chips = 1
  /\ answers = last.pre.answers
  /\ answers[Question(step).id] = "a, " \o last.arg

\* C7: a chip click with option value v on current answer a leaves v when a is
\* empty, a followed by ', ' and v when a is non-empty and v does not occur in
\* a, and a itself when v occurs in a ('1' after '10' changes nothing); no
\* other answer changes.
C7_ChipAppends ==
  last.op = "chip" =>
    LET id == Question(step).id
        a  == PreAnswer(id)
        v  == last.arg
    IN  /\ step = last.pre.step
        /\ (a = "") => answers = Put(last.pre.answers, id, v)
        /\ (a # "" /\ ~OccursIn(v, a)) => answers = Put(last.pre.answers, id, a \o ", " \o v)
        /\ OccursIn(v, a) => answers = last.pre.answers
        /\ (a = "10" /\ v = "1") => answers[id] = "10"

C7_Witness ==
  /\ last.op = "chip"
  /\ last.arg = "1"
  /\ PreAnswer(Question(step).id) = "10"
  /\ answers[Question(step).id] = "10"

\* C8: after next, back, review edit, return to Select or restart has changed
\* the step or the mode, quickFeedback is empty; and starting or finishing
\* the quick analysis changes neither mode nor step nor answers.
C8_FeedbackClearedOnStepChange ==
  /\ (/\ last.op \in {"next", "back", "startNew", "startContinue"}
      /\ (step # last.pre.step \/ mode # last.pre.mode))
       => quickFeedback = Null
  /\ last.op \in {"checkPremise", "analyzeResolved", "analyzeRejected"}
       => mode = last.pre.mode /\ step = last.pre.step /\ answers = last.pre.answers

\* C9: startNew leaves the wizard at Question(0) with no answers at all;
\* startContinue leaves it at Intake with the existing-content key alone, set
\* to ''; whatever answers the session before had.
C9_StartClearsAnswers ==
  /\ last.op = "startNew" =>
       mode = "WIZARD" /\ step = 0 /\ DOMAIN answers = {}
  /\ last.op = "startContinue" =>
       mode = "WIZARD" /\ step = -1 /\ DOMAIN answers = {ExistingContent}
         /\ answers[ExistingContent] = ""

C9_Witness ==
  /\ last.op = "startNew"
  /\ PreAnswer("corePremise") # ""
  /\ DOMAIN answers = {}

\* C10: from Review, edit (back) leads to Question(N-1) with the answers
\* unchanged; submit hands onComplete the whole current answers map and
\* changes nothing; onComplete is called from Review only.
C10_ReviewEditAndSubmit ==
  /\ StartedAt("back", N) =>
       mode = "WIZARD" /\ step = N - 1 /\ answers = last.pre.answers
  /\ last.op = "submit" =>
       /\ last.pre.mode = "WIZARD" /\ last.pre.step = N
       /\ last.arg = last.pre.answers
       /\ mode = "WIZARD" /\ step = N /\ answers = last.pre.answers

C10_Witness ==
  /\ last.op = "submit"
  /\ \A i \in 0..(N - 1) : Question(i).id \in DOMAIN last.arg /\ last.arg[Question(i).id] # ""

(***************************************************************************)
(* InfographicStudio (src/unnamed/part_000): handlePlan structures the     *)
(* text into items, generateAllImages starts one image request per item,   *)
(* and every request writes its outcome back through a functional update   *)
(* of the item list keyed by the item's id.                                *)
(***************************************************************************)

\* how often the plan button is pressed and how many image requests are
\* started in a run
MaxPlans == 2
MaxRequests == 4

\* the item ids structureInfographicData may return for a text; two texts
\* may yield items with the same id
PlanResults == {<<1, 2, 3>>, <<2, 4>>}

\* the variables of the wizard
wizardVars == <<mode, step, answers, isAnalyzing, isUploading, quickFeedback,
                analyzePending, uploadPending, clears, chips>>

\* a step of the studio: the history records the operation and the state
\* it started from
InfoDid(op, arg) ==
  /\ last' = [op |-> op, arg |-> arg, pre |-> info]
  /\ UNCHANGED <<wizardVars, doc, gal, chat>>

\* an item as the structuring service returns it: no image yet
NoImage == 0
NewItem(id) == [id |-> id, status |-> "pending", imageData |-> NoImage]

\* the image a request returns: each request has its own
ImageOf(r) == r

\* prev.map(p => p.id === item.id ? { ...p, status: 'generating' } : p)
MarkGenerating(prev, id) ==
  [k \in DOMAIN prev |->
     IF prev[k].id = id THEN [prev[k] EXCEPT !.status = "generating"]
     ELSE prev[k]]

MarkDoneAll(prev, id, image) ==
  [k \in DOMAIN prev |->
     [prev[k] EXCEPT !.status = "done", !.imageData = image]]

\* prev.map(p => p.id === item.id ? { ...p, status: 'done', imageData } : p)
MarkDone(prev, id, image) ==
  [k \in DOMAIN prev |->
     IF prev[k].id = id
     THEN [prev[k] EXCEPT !.status = "done", !.imageData = image]
     ELSE prev[k]]

MarkFailedMissing(prev, id) == prev

\* prev.map(p => p.id === item.id ? { ...p, status: 'failed' } : p)
MarkFailed(prev, id) ==
  [k \in DOMAIN prev |->
     IF prev[k].id = id THEN [prev[k] EXCEPT !.status = "failed"]
     ELSE prev[k]]

\* the synchronous part of generateAllImages: the start update of every
\* item of the batch, in item order
RECURSIVE StartAll(_, _, _)
StartAll(prev, ids, k) ==
  IF k > Len(ids) THEN prev
  ELSE StartAll(MarkGenerating(prev, ids[k]), ids, k + 1)

\* Promise.allSettled: every request of the batch has settled
BatchSettled(requests, b) ==
  \A r \in DOMAIN requests :
     requests[r].batch = b => requests[r].state # "inflight"

\* the plan button: disabled while a plan is being made
handlePlan ==
  /\ ~info.isPlanning
  /\ info.plans < MaxPlans
  /\ info' = [info EXCEPT !.isPlanning = TRUE, !.items = <<>>,
                          !.planPending = TRUE, !.plans = @ + 1]
  /\ InfoDid("plan", "")

\* structureInfographicData returns: the items are set, one request per
\* item is started, and the finally block clears isPlanning
planResolved ==
  /\ info.planPending
  /\ \E ids \in PlanResults :
       LET b == Len(info.batches) + 1
           initializedItems == [k \in DOMAIN ids |-> NewItem(ids[k])]
       IN /\ Len(info.requests) + Len(ids) <= MaxRequests
          /\ info' = [info EXCEPT
                 !.items = StartAll(initializedItems, ids, 1),
                 !.requests = @ \o [k \in DOMAIN ids |->
                     [id |-> ids[k], batch |-> b, state |-> "inflight"]],
                 !.batches = Append(@, FALSE),
                 !.isPlanning = FALSE,
                 !.planPending = FALSE]
          /\ InfoDid("planResolved", ids)

\* structureInfographicData fails: the catch and the finally block clear
\* isPlanning; the list stays as handlePlan emptied it
planRejected ==
  /\ info.planPending
  /\ info' = [info EXCEPT !.isPlanning = FALSE, !.planPending = FALSE]
  /\ InfoDid("planRejected", "")

\* the regenerate button of a slide: one more request for that item
handleRegenerate ==
  /\ Len(info.requests) < MaxRequests
  /\ \E k \in DOMAIN info.items :
       LET id == info.items[k].id
       IN /\ info' = [info EXCEPT
                 !.items = MarkGenerating(@, id),
                 !.requests = Append(@, [id |-> id, batch |-> 0,
                                          state |-> "inflight"])]
          /\ InfoDid("regenerate", id)

\* generateImage of request r returns
imageResolved ==
  \E r \in DOMAIN info.requests :
    /\ info.requests[r].state = "inflight"
    /\ info' = [info EXCEPT
          !.items = MarkDone(@, info.requests[r].id, ImageOf(r)),
          !.requests[r].state = "ok"]
    /\ InfoDid("imageResolved", info.requests[r].id)

\* generateImage of request r fails
imageRejected ==
  \E r \in DOMAIN info.requests :
    /\ info.requests[r].state = "inflight"
    /\ info' = [info EXCEPT
          !.items = MarkFailed(@, info.requests[r].id),
          !.requests[r].state = "failed"]
    /\ InfoDid("imageRejected", info.requests[r].id)

\* the promise of generateAllImages resolves
batchResolved ==
  \E b \in DOMAIN info.batches :
    /\ ~info.batches[b]
    /\ BatchSettled(info.requests, b)
    /\ info' = [info EXCEPT !.batches[b] = TRUE]
    /\ InfoDid("batchResolved", b)

InfoNext ==
  \/ handlePlan
  \/ planResolved
  \/ planRejected
  \/ handleRegenerate
  \/ imageResolved
  \/ imageRejected
  \/ batchResolved

InfoSpec == Init /\ [][InfoNext]_vars

\* the requests ever started for the item id
RequestsFor(id) ==
  {r \in DOMAIN info.requests : info.requests[r].id = id}

AllSettled ==
  \A r \in DOMAIN info.requests : info.requests[r].state # "inflight"

\* C11: once every image request has settled, no item is pending or
\* generating; an item for which a single request was made is 'done' with
\* that request's image if the request succeeded and 'failed' if it failed;
\* and a batch resolves only after all of its requests have settled.
C11_BatchSettlesPerItem ==
  /\ AllSettled =>
       \A k \in DOMAIN info.items :
         LET item == info.items[k]
         IN /\ item.status \in {"done", "failed"}
            /\ \A r \in DOMAIN info.requests :
                 RequestsFor(item.id) = {r} =>
                   /\ info.requests[r].state = "ok" =>
                        item.status = "done" /\ item.imageData = ImageOf(r)
                   /\ info.requests[r].state = "failed" =>
                        item.status = "failed"
  /\ \A b \in DOMAIN info.batches :
       info.batches[b] => BatchSettled(info.requests, b)

\* a batch of three whose second request failed has settled and resolved
C11_Witness ==
  /\ AllSettled
  /\ Len(info.requests) = 3
  /\ info.batches = <<TRUE>>
  /\ [k \in DOMAIN info.items |-> info.items[k].status]
       = <<"done", "failed", "done">>
  /\ [k \in DOMAIN info.requests |-> info.requests[k].state]
       = <<"ok", "failed", "ok">>

\* C12: a start, success or failure update of a request for item X keeps
\* the length and the order of the item list and every entry whose id is
\* not X's.
C12_UpdateTouchesOwnItemOnly ==
  last.op \in {"regenerate", "imageResolved", "imageRejected"} =>
    LET pre == last.pre.items
    IN /\ Len(info.items) = Len(pre)
       /\ \A k \in DOMAIN pre :
            /\ info.items[k].id = pre[k].id
            /\ pre[k].id # last.arg => info.items[k] = pre[k]

\* a request completed while another item of the list was still generating
C12_Witness ==
  /\ last.op = "imageResolved"
  /\ \E k \in DOMAIN info.items :
       /\ info.items[k].id = last.arg
       /\ info.items[k] # last.pre.items[k]
  /\ \E k \in DOMAIN info.items :
       /\ info.items[k].id # last.arg
       /\ info.items[k].status = "generating"

(***************************************************************************)
(* ChatRichText (src/components/ChatAssistant.tsx, lines 6-59): the text   *)
(* is split into blocks at blank lines, every block is trimmed and         *)
(* classified, and paragraph, list-item and blockquote text goes through   *)
(* parseInline.  Texts are strings; the string methods and the regular     *)
(* expressions of the source are written out as operators.                 *)
(***************************************************************************)

\* the number of pieces a text is put together from
MaxPieces == 4

\* the backtick, which cannot be written inside a string here
Tick == "'"
Fence == Tick \o Tick \o Tick

Pieces == {"a", "*", Tick, "\n", " ", "- ", "### ", "## ", "> ", "1. "}

RECURSIVE PieceTexts(_)
PieceTexts(n) ==
  IF n = 0 THEN {""}
  ELSE LET S == PieceTexts(n - 1)
       IN S \cup {t \o c : t \in S, c \in Pieces}

\* texts of the kinds the renderer distinguishes
SampleTexts ==
  {"**bold** and *italic* and " \o Tick \o "code" \o Tick,
   "### Title", "## Title", "### a\n- b", "> a\n- b", "> a > b",
   "- a\n- b", "1. a\n22. b\nc", "a\n\n\n- b\n \n### c",
   "*a\nb*", Fence \o "js\na" \o Fence, "a **b* c**",
   Fence \o "\n*a*\n" \o Fence, Fence \o "js\na\n\nb\n" \o Fence}

Texts == PieceTexts(MaxPieces) \cup SampleTexts

SetMin(S) == CHOOSE x \in S : \A y \in S : x <= y
SetMax(S) == CHOOSE x \in S : \A y \in S : x >= y

\* s[i - 1], "" outside the string
Char(s, i) == IF i \in 1..Len(s) THEN SubSeq(s, i, i) ELSE ""

\* s.slice(n)
Drop(s, n) == IF n >= Len(s) THEN "" ELSE SubSeq(s, n + 1, Len(s))

\* s.slice(0, n)
Take(s, n) == IF n <= 0 THEN "" ELSE SubSeq(s, 1, n)

\* s.slice(a, -b)
Slice(s, a, b) == IF a + b >= Len(s) THEN "" ELSE SubSeq(s, a + 1, Len(s) - b)

\* p occurs in s at position i
At(s, i, p) ==
  /\ i >= 1
  /\ i + Len(p) - 1 <= Len(s)
  /\ SubSeq(s, i, i + Len(p) - 1) = p

StartsWith(s, p) == At(s, 1, p)
EndsWith(s, p) == At(s, Len(s) - Len(p) + 1, p)

\* s.indexOf(p) + 1
IndexOf(s, p) ==
  LET I == {i \in 1..Len(s) : At(s, i, p)}
  IN IF I = {} THEN 0 ELSE SetMin(I)

\* \s, \d and \w on the characters texts are made of
IsSpace(c) == c \in {" ", "\n", "\t", "\r"}
IsDigit(c) == c \in {"0", "1", "2", "3", "4", "5", "6", "7", "8", "9"}
IsWord(c) ==
  \/ IsDigit(c)
  \/ c \in {"a", "b", "c", "d", "e", "f", "g", "h", "i", "j", "k", "l", "m",
            "n", "o", "p", "q", "r", "s", "t", "u", "v", "w", "x", "y", "z",
            "A", "B", "C", "D", "E", "F", "G", "H", "I", "J", "K", "L", "M",
            "N", "O", "P", "Q", "R", "S", "T", "U", "V", "W", "X", "Y", "Z",
            "_"}

\* the last position of the longest run of whitespace, digits or word
\* characters that starts at position i; i - 1 when the run is empty
RECURSIVE SpaceRunEnd(_, _)
SpaceRunEnd(s, i) ==
  IF IsSpace(Char(s, i)) THEN SpaceRunEnd(s, i + 1) ELSE i - 1

RECURSIVE DigitRunEnd(_, _)
DigitRunEnd(s, i) ==
  IF IsDigit(Char(s, i)) THEN DigitRunEnd(s, i + 1) ELSE i - 1

RECURSIVE WordRunEnd(_, _)
WordRunEnd(s, i) ==
  IF IsWord(Char(s, i)) THEN WordRunEnd(s, i + 1) ELSE i - 1

\* s.trim()
RECURSIVE TrimEnd(_)
TrimEnd(s) ==
  IF IsSpace(Char(s, Len(s))) THEN TrimEnd(Take(s, Len(s) - 1)) ELSE s

Trim(s) == TrimEnd(Drop(s, SpaceRunEnd(s, 1)))

\* s.split(sep) for a separator string
RECURSIVE SplitOn(_, _)
SplitOn(s, sep) ==
  LET i == IndexOf(s, sep)
  IN IF i = 0 THEN <<s>>
     ELSE <<Take(s, i - 1)>> \o SplitOn(Drop(s, i + Len(sep) - 1), sep)

RECURSIVE Concat(_)
Concat(parts) ==
  IF parts = <<>> THEN "" ELSE Head(parts) \o Concat(Tail(parts))

\* s.replace(p, '') for a string p: the first occurrence goes
ReplaceFirst(s, p) ==
  LET i == IndexOf(s, p)
  IN IF i = 0 THEN s ELSE Take(s, i - 1) \o Drop(s, i + Len(p) - 1)

\* s.replace(/p/g, '') for a literal p: every occurrence goes
RemoveAll(s, p) == Concat(SplitOn(s, p))

\* /\n\s*\n/ at position i: the position of the last character of the
\* match, 0 when there is none.  \s* is greedy and gives back characters
\* until a line break follows.
BlankLineEnd(s, i) ==
  IF Char(s, i) # "\n" THEN 0
  ELSE LET breaks == {j \in (i + 1)..SpaceRunEnd(s, i + 1) :
                          Char(s, j) = "\n"}
       IN IF breaks = {} THEN 0 ELSE SetMax(breaks)

\* text.split(/\n\s*\n/)
RECURSIVE SplitBlocks(_)
SplitBlocks(s) ==
  LET M == {i \in 1..Len(s) : BlankLineEnd(s, i) > 0}
  IN IF M = {} THEN <<s>>
     ELSE LET i == SetMin(M)
          IN <<Take(s, i - 1)>> \o SplitBlocks(Drop(s, BlankLineEnd(s, i)))

\* .*? followed by close, from position from on: the nearest position of
\* close with no line break before it, 0 when there is none
ClosePos(s, from, close) ==
  LET C == {j \in from..Len(s) :
              /\ At(s, j, close)
              /\ \A k \in from..(j - 1) : Char(s, k) # "\n"}
  IN IF C = {} THEN 0 ELSE SetMin(C)

\* /(\*\*.*?\*\*|\*.*?\*|`.*?`)/ at position i: the position of the last
\* character of the match, 0 when there is none; the alternatives are
\* tried in order
InlineEnd(s, i) ==
  LET bold == IF At(s, i, "**") THEN ClosePos(s, i + 2, "**") ELSE 0
      italic == IF At(s, i, "*") THEN ClosePos(s, i + 1, "*") ELSE 0
      code == IF At(s, i, Tick) THEN ClosePos(s, i + 1, Tick) ELSE 0
  IN IF bold > 0 THEN bold + 1
     ELSE IF italic > 0 THEN italic
     ELSE code

\* str.split(/(...)/g): the texts between the matches and, the group
\* being a capturing one, the matches themselves; matches are at the even
\* positions of the result
RECURSIVE SplitInline(_)
SplitInline(s) ==
  LET M == {i \in 1..Len(s) : InlineEnd(s, i) > 0}
  IN IF M = {} THEN <<s>>
     ELSE LET i == SetMin(M)
              e == InlineEnd(s, i)
          IN <<Take(s, i - 1), SubSeq(s, i, e)>> \o SplitInline(Drop(s, e))

Span(kind, text) == [kind |-> kind, text |-> text]

\* the element parseInline makes of one part
InlineNode(part) ==
  IF StartsWith(part, "**") /\ EndsWith(part, "**")
    THEN Span("Bold", Slice(part, 2, 2))
  ELSE IF StartsWith(part, "*") /\ EndsWith(part, "*")
    THEN Span("Italic", Slice(part, 1, 1))
  ELSE IF StartsWith(part, Tick) /\ EndsWith(part, Tick)
    THEN Span("InlineCode", Slice(part, 1, 1))
  ELSE Span("PlainText", part)

parseInline(str) ==
  LET parts == SplitInline(str)
  IN [k \in DOMAIN parts |-> InlineNode(parts[k])]

\* an empty string among the children renders nothing
Renders(node) == ~(node.kind = "PlainText" /\ node.text = "")

\* what parseInline puts on the page
Spans(str) == SelectSeq(parseInline(str), Renders)

\* the length of the marker /^\d+\. / at the start of a line, 0 if none
NumberMarkerLen(line) ==
  LET d == DigitRunEnd(line, 1)
  IN IF d > 0 /\ At(line, d + 1, ". ") THEN d + 2 ELSE 0

\* /^- / or /^\d+\. / matches the line
HasMarker(line) == StartsWith(line, "- ") \/ NumberMarkerLen(line) > 0

StripMarkerNever(item) == item

\* item.replace(/^- |^\d+\. /, '')
StripMarker(item) ==
  IF StartsWith(item, "- ") THEN Drop(item, 2)
  ELSE Drop(item, NumberMarkerLen(item))

\* trimmed.match(/^- /m) || trimmed.match(/^\d+\. /m)
IsList(trimmed) ==
  LET lines == SplitOn(trimmed, "\n")
  IN \E k \in DOMAIN lines : HasMarker(lines[k])

\* trimmed.replace(/^```\w*\n?/, '').replace(/```$/, '')
CodeContent(trimmed) ==
  LET w == WordRunEnd(trimmed, 4)
      opened == Drop(trimmed, IF Char(trimmed, w + 1) = "\n" THEN w + 1 ELSE w)
  IN IF EndsWith(opened, Fence) THEN Take(opened, Len(opened) - 3)
     ELSE opened

BlockKindQuoteFirst(trimmed) ==
  IF StartsWith(trimmed, "### ") THEN "Heading3"
  ELSE IF StartsWith(trimmed, "## ") THEN "Heading2"
  ELSE IF StartsWith(trimmed, Fence) THEN "CodeBlock"
  ELSE IF StartsWith(trimmed, "> ") THEN "Blockquote"
  ELSE IF IsList(trimmed) THEN "List"
  ELSE "Paragraph"

\* the branch of the block map a trimmed block takes
BlockKind(trimmed) ==
  IF StartsWith(trimmed, "### ") THEN "Heading3"
  ELSE IF StartsWith(trimmed, "## ") THEN "Heading2"
  ELSE IF StartsWith(trimmed, Fence) THEN "CodeBlock"
  ELSE IF IsList(trimmed) THEN "List"
  ELSE IF StartsWith(trimmed, "> ") THEN "Blockquote"
  ELSE "Paragraph"

\* the element made of a trimmed block: its kind, the block it was made
\* from, its text, its list items and the inline spans of its text or of
\* each of its items
RenderBlock(trimmed) ==
  LET kind == BlockKind(trimmed)
      lines == SplitOn(trimmed, "\n")
      quoted == RemoveAll(trimmed, "> ")
      plain(text) == [kind |-> kind, src |-> trimmed, text |-> text,
                      items |-> <<>>, spans |-> <<>>]
  IN CASE kind = "Heading3" -> plain(ReplaceFirst(trimmed, "### "))
       [] kind = "Heading2" -> plain(ReplaceFirst(trimmed, "## "))
       [] kind = "CodeBlock" -> plain(CodeContent(trimmed))
       [] kind = "List" ->
            [kind |-> kind, src |-> trimmed, text |-> "",
             items |-> [k \in DOMAIN lines |-> StripMarker(lines[k])],
             spans |-> [k \in DOMAIN lines |-> Spans(StripMarker(lines[k]))]]
       [] kind = "Blockquote" ->
            [kind |-> kind, src |-> trimmed, text |-> quoted,
             items |-> <<>>, spans |-> <<Spans(quoted)>>]
       [] OTHER ->
            [kind |-> kind, src |-> trimmed, text |-> trimmed,
             items |-> <<>>, spans |-> <<Spans(trimmed)>>]

EveryChunk(block) == TRUE

\* if (!trimmed) return null
NonBlank(block) == Trim(block) # ""

\* the blocks the component puts on the page for a text
ChatRichText(text) ==
  IF text = "" THEN <<>>
  ELSE LET blocks == SelectSeq(SplitBlocks(text), NonBlank)
       IN [k \in DOMAIN blocks |-> RenderBlock(Trim(blocks[k]))]

\* the component is given a text
DocInit ==
  /\ WizardStart
  /\ info = InfoStart
  /\ gal = GalStart
  /\ chat = ChatStart
  /\ doc \in {[text |-> t, rendered |-> FALSE, out |-> <<>>] : t \in Texts}

\* the component renders
renderText ==
  /\ ~doc.rendered
  /\ doc' = [doc EXCEPT !.rendered = TRUE, !.out = ChatRichText(doc.text)]
  /\ UNCHANGED <<wizardVars, last, info, gal, chat>>

DocNext == renderText

DocSpec == DocInit /\ [][DocNext]_vars

\* the text parseInline was given for the k-th span sequence of a block
InlineText(block, k) ==
  IF block.kind = "List" THEN block.items[k] ELSE block.text

\* a delimiter pair of one of the three patterns occurs in str
HasPair(str) == \E i \in 1..Len(str) : InlineEnd(str, i) > 0

\* the source text a span stands for
SourceOf(span) ==
  CASE span.kind = "Bold" -> "**" \o span.text \o "**"
    [] span.kind = "Italic" -> "*" \o span.text \o "*"
    [] span.kind = "InlineCode" -> Tick \o span.text \o Tick
    [] OTHER -> span.text

SourceOfAll(spans) == Concat([k \in DOMAIN spans |-> SourceOf(spans[k])])

\* C13: the spans of a paragraph, list item or blockquote text are, in
\* source order, Bold for '**x**', Italic for '*x*' and InlineCode for a
\* backtick pair, with the delimiters stripped, and everything else as
\* PlainText verbatim: putting the delimiters back around the spans gives
\* the text again, no PlainText span holds a pair, the content of a span is
\* the shortest possible, and the example text has exactly its five spans.
C13_InlineTokens ==
  doc.rendered =>
    /\ \A b \in DOMAIN doc.out : \A k \in DOMAIN doc.out[b].spans :
         LET spans == doc.out[b].spans[k]
         IN /\ SourceOfAll(spans) = InlineText(doc.out[b], k)
            /\ \A n \in DOMAIN spans :
                 /\ spans[n].kind = "PlainText" => ~HasPair(spans[n].text)
                 /\ spans[n].kind = "Bold" => IndexOf(spans[n].text, "**") = 0
                 /\ spans[n].kind = "Italic" => IndexOf(spans[n].text, "*") = 0
                 /\ spans[n].kind = "InlineCode" => IndexOf(spans[n].text, Tick) = 0
    /\ doc.text = "**bold** and *italic* and " \o Tick \o "code" \o Tick =>
         /\ Len(doc.out) = 1
         /\ doc.out[1].kind = "Paragraph"
         /\ doc.out[1].spans =
              << <<Span("Bold", "bold"), Span("PlainText", " and "),
                   Span("Italic", "italic"), Span("PlainText", " and "),
                   Span("InlineCode", "code")>> >>

\* C14: a text without any delimiter pair comes out as a single PlainText
\* span holding the whole text: no character is dropped and no Bold,
\* Italic or InlineCode span is made of an unmatched delimiter.
C14_UnmatchedDelimiterIsPlain ==
  doc.rendered =>
    \A b \in DOMAIN doc.out : \A k \in DOMAIN doc.out[b].spans :
      LET str == InlineText(doc.out[b], k)
      IN ~HasPair(str) /\ str # "" =>
           doc.out[b].spans[k] = <<Span("PlainText", str)>>

\* C15: a block is classified by the first test that matches it, in the
\* order Heading3, Heading2, CodeBlock, List, Blockquote, Paragraph; the
\* text of a Heading3 is the block without its '### ' marker.
C15_ClassifiedInFixedOrder ==
  doc.rendered =>
    \A b \in DOMAIN doc.out :
      LET t == doc.out[b].src
          kind == doc.out[b].kind
          h3 == StartsWith(t, "### ")
          h2 == StartsWith(t, "## ")
          code == StartsWith(t, Fence)
          list == \E line \in {SplitOn(t, "\n")[k] : k \in DOMAIN SplitOn(t, "\n")} :
                    HasMarker(line)
          quote == StartsWith(t, "> ")
      IN /\ kind = "Heading3" <=> h3
         /\ kind = "Heading2" <=> ~h3 /\ h2
         /\ kind = "CodeBlock" <=> ~h3 /\ ~h2 /\ code
         /\ kind = "List" <=> ~h3 /\ ~h2 /\ ~code /\ list
         /\ kind = "Blockquote" <=> ~h3 /\ ~h2 /\ ~code /\ ~list /\ quote
         /\ kind = "Paragraph" <=> ~h3 /\ ~h2 /\ ~code /\ ~list /\ ~quote
         /\ h3 => doc.out[b].text = Drop(t, 4)
         /\ t = "### Title" => doc.out[b].text = "Title"

\* a block that starts with '> ' and holds a list line came out as a List
C15_Witness ==
  /\ doc.rendered
  /\ doc.text = "> a\n- b"
  /\ Len(doc.out) = 1
  /\ doc.out[1].kind = "List"

\* C16: a List block has one item per line of the block, in line order,
\* and an item is its line without the leading '- ' or digits-dot-space
\* marker; '- a\n- b' gives a single List with the items a and b.
C16_ListItemsAreLines ==
  doc.rendered =>
    /\ \A b \in DOMAIN doc.out :
         doc.out[b].kind = "List" =>
           LET lines == SplitOn(doc.out[b].src, "\n")
               items == doc.out[b].items
           IN /\ Len(items) = Len(lines)
              /\ \A k \in DOMAIN lines :
                   /\ StartsWith(lines[k], "- ") =>
                        lines[k] = "- " \o items[k]
                   /\ NumberMarkerLen(lines[k]) > 0 =>
                        /\ EndsWith(lines[k], items[k])
                        /\ Len(items[k]) = Len(lines[k]) - NumberMarkerLen(lines[k])
                   /\ ~HasMarker(lines[k]) => items[k] = lines[k]
    /\ doc.text = "- a\n- b" =>
         /\ Len(doc.out) = 1
         /\ doc.out[1].kind = "List"
         /\ doc.out[1].items = <<"a", "b">>

\* a list of a numbered line, a line with a longer number and a plain line
C16_Witness ==
  /\ doc.rendered
  /\ doc.text = "1. a\n22. b\nc"
  /\ Len(doc.out) = 1
  /\ doc.out[1].items = <<"a", "b", "c">>

\* C17: the page holds one block per non-blank chunk of the text split at
\* blank lines, in the order of the chunks, and nothing for the empty text.
C17_OneBlockPerChunk ==
  doc.rendered =>
    LET chunks == SplitBlocks(doc.text)
        filled == {i \in DOMAIN chunks : Trim(chunks[i]) # ""}
        nth(k) == CHOOSE i \in filled :
                    Cardinality({j \in filled : j <= i}) = k
    IN /\ Len(doc.out) = Cardinality(filled)
       /\ \A k \in DOMAIN doc.out : doc.out[k].src = Trim(chunks[nth(k)])
       /\ doc.text = "" => doc.out = <<>>

\* a text of three chunks, and a text whose first chunk is blank
C17_Witness ==
  /\ doc.rendered
  /\ \/ /\ doc.text = "a\n\n\n- b\n \n### c"
        /\ [k \in DOMAIN doc.out |-> doc.out[k].kind]
             = <<"Paragraph", "List", "Heading3">>
     \/ /\ doc.text = "\n\na"
        /\ Len(SplitBlocks(doc.text)) = 2
        /\ Len(doc.out) = 1

(***************************************************************************)
(* ImageStudio (src/components/ImageStudio.tsx): the gallery of saved      *)
(* images, kept in component state and in local storage.  handleAction     *)
(* awaits the image service and then saves through the saveToGallery of    *)
(* the render in which the button was pressed, that is, into the gallery   *)
(* as it was at that time.                                                 *)
(***************************************************************************)

\* if (newGallery.length > 20) newGallery.pop()
GalleryLimit == 20

\* how often the action button and a delete button are pressed in a run
MaxActions == 1
MaxAsks == 1

\* the sizes of the stored gallery the component is mounted on
StoredSizes == {0, 1, GalleryLimit - 1, GalleryLimit}

\* the tiles of the gallery that get clicked: the newest two and the oldest
Tiles(gallery) == {1, 2, Len(gallery)} \cap DOMAIN gallery

\* a gallery entry; ids are times, so a later entry has a larger id
Entry(id, imageData) == [id |-> id, imageData |-> imageData]

\* a stored gallery of n entries, newest first, as earlier saves left it
StoredGallery(n) == [k \in 1..n |-> Entry(n + 1 - k, n + 1 - k)]

GalDid(op, arg) ==
  /\ last' = [op |-> op, arg |-> arg, pre |-> gal]
  /\ UNCHANGED <<wizardVars, info, doc, chat>>

GalInit ==
  /\ WizardStart
  /\ info = InfoStart
  /\ doc = DocStart
  /\ chat = ChatStart
  /\ \E n \in StoredSizes : gal = GalMounted(StoredGallery(n))

\* the gallery saveToGallery sets, from the gallery of its render
Saved(gallery, id, imageData) ==
  IF \E k \in DOMAIN gallery : gallery[k].imageData = imageData
    THEN gallery
  ELSE LET newGallery == <<Entry(id, imageData)>> \o gallery
       IN IF Len(newGallery) > GalleryLimit
            THEN SubSeq(newGallery, 1, Len(newGallery) - 1)
          ELSE newGallery

\* saveToGallery(imageData, ...) in a render whose gallery is gallery: the
\* state is set, and local storage is written unless setItem throws
saveToGallery(g, gallery, imageData) ==
  LET newGallery == Saved(gallery, g.clock + 1, imageData)
  IN IF newGallery = gallery THEN {g}
     ELSE {[g EXCEPT !.gallery = newGallery, !.stored = newGallery,
                     !.unparsable = FALSE, !.clock = @ + 1],
           [g EXCEPT !.gallery = newGallery, !.clock = @ + 1]}

\* the confirmation dialog covers the page
NoDialog == gal.deleteId = None

\* the Generate / Transform button: disabled while an action is in flight
handleAction ==
  /\ NoDialog
  /\ ~gal.isGenerating
  /\ gal.actions < MaxActions
  /\ gal' = [gal EXCEPT !.isGenerating = TRUE, !.resultImage = None,
                        !.pending = <<gal.gallery>>, !.actions = @ + 1]
  /\ GalDid("action", "")

\* the image service returns a new image: it is shown and auto-saved
actionResolved ==
  /\ gal.pending # <<>>
  /\ LET image == gal.clock + 1
         shown == [gal EXCEPT !.resultImage = image, !.pending = <<>>,
                              !.isGenerating = FALSE]
     IN /\ gal' \in saveToGallery(shown, gal.pending[1], image)
        /\ GalDid("autoSave", image)

\* the image service fails: alert, and finally clears isGenerating
actionRejected ==
  /\ gal.pending # <<>>
  /\ gal' = [gal EXCEPT !.pending = <<>>, !.isGenerating = FALSE]
  /\ GalDid("actionRejected", "")

\* a click on a gallery tile shows its image as the result
loadFromGallery ==
  /\ NoDialog
  /\ \E k \in Tiles(gal.gallery) :
       /\ gal.resultImage # gal.gallery[k].imageData
       /\ gal' = [gal EXCEPT !.resultImage = gal.gallery[k].imageData]
       /\ GalDid("load", gal.gallery[k].id)

\* the Save button next to the result
manualSave ==
  /\ NoDialog
  /\ gal.resultImage # None
  /\ gal' \in saveToGallery(gal, gal.gallery, gal.resultImage)
  /\ GalDid("manualSave", gal.resultImage)

\* the delete button of a gallery tile opens the confirmation dialog
requestDelete ==
  /\ NoDialog
  /\ gal.asks < MaxAsks
  /\ \E k \in Tiles(gal.gallery) :
       /\ gal' = [gal EXCEPT !.deleteId = gal.gallery[k].id, !.asks = @ + 1]
       /\ GalDid("requestDelete", gal.gallery[k].id)

\* Cancel in the dialog
cancelDelete ==
  /\ gal.deleteId # None
  /\ gal' = [gal EXCEPT !.deleteId = None]
  /\ GalDid("cancelDelete", gal.deleteId)

\* Delete in the dialog
confirmDelete ==
  /\ gal.deleteId # None
  /\ LET newGallery == SelectSeq(gal.gallery,
                                 LAMBDA g : g.id # gal.deleteId)
     IN gal' = [gal EXCEPT !.gallery = newGallery, !.stored = newGallery,
                           !.unparsable = FALSE, !.deleteId = None,
                           !.deleted = @ \cup {gal.deleteId}]
  /\ GalDid("confirmDelete", gal.deleteId)

GalNext ==
  \/ handleAction
  \/ actionResolved
  \/ actionRejected
  \/ loadFromGallery
  \/ manualSave
  \/ requestDelete
  \/ cancelDelete
  \/ confirmDelete

GalSpec == GalInit /\ [][GalNext]_vars

NewestFirst(gallery) ==
  \A i, j \in DOMAIN gallery : i < j => gallery[i].id > gallery[j].id

\* the last step saved an entry
SaveDone ==
  /\ last.op \in {"autoSave", "manualSave"}
  /\ gal.gallery # last.pre.gallery

\* C18 (the cap): the gallery never holds more than 20 entries, and they
\* are ordered newest first.
C18_GalleryCapped ==
  /\ Len(gal.gallery) <= GalleryLimit
  /\ NewestFirst(gal.gallery)

\* C18: the cap and the order of C18_GalleryCapped, and a save into a full
\* gallery puts the new entry first and removes the oldest entry and no
\* other.
C18_FullGalleryEvictsOldest ==
  /\ C18_GalleryCapped
  /\ SaveDone /\ Len(last.pre.gallery) = GalleryLimit =>
       /\ gal.gallery[1].imageData = last.arg
       /\ Tail(gal.gallery) = SubSeq(last.pre.gallery, 1, GalleryLimit - 1)

(***************************************************************************)
(* ChatSection (src/components/ChatAssistant.tsx, lines 61-262): the chat  *)
(* sessions, kept in component state and in local storage.  handleSend     *)
(* creates or updates the session, awaits the chat service and writes the  *)
(* answer back through the updateSessionInStorage of the render in which   *)
(* the message was sent.                                                   *)
(***************************************************************************)

\* how often a message is sent and a session is deleted in a run
MaxSends == 2
MaxDeletes == 1

\* the sizes of the stored session list the component is mounted on
StoredCounts == {0, 1, GalleryLimit}

\* the rows of the session list that get clicked
Rows(sessions) == {1, 2, Len(sessions)} \cap DOMAIN sessions

\* a message; t is the time it was made
Msg(role, t) == [role |-> role, t |-> t]

Session(id, messages) == [id |-> id, messages |-> messages]

\* a stored list of n sessions, newest first, each a question and an answer
StoredSessions(n) ==
  [k \in 1..n |->
     Session(n + 1 - k, <<Msg("user", n + 1 - k), Msg("model", n + 1 - k)>>)]

ChatDid(op, arg) ==
  /\ last' = [op |-> op, arg |-> arg, pre |-> chat]
  /\ UNCHANGED <<wizardVars, info, doc, gal>>

ChatInit ==
  /\ WizardStart
  /\ info = InfoStart
  /\ doc = DocStart
  /\ gal = GalStart
  /\ \E n \in StoredCounts : chat = ChatMounted(StoredSessions(n))

\* the list createNewSession persists: the new session before the others
createNewSession(sessions, id, firstMessage) ==
  <<Session(id, <<firstMessage>>)>> \o sessions

\* the list updateSessionInStorage persists: the session id gets the
\* messages and moves to the top; a list without that id stays as it is
updateSessionInStorage(sessions, id, msgs) ==
  LET updatedSessions ==
        [k \in DOMAIN sessions |->
           IF sessions[k].id = id THEN [sessions[k] EXCEPT !.messages = msgs]
           ELSE sessions[k]]
      current == SelectSeq(updatedSessions, LAMBDA x : x.id = id)
      others == SelectSeq(updatedSessions, LAMBDA x : x.id # id)
  IN IF current # <<>> THEN <<current[1]>> \o others ELSE updatedSessions

\* the send button, with a text typed: no-op while a send is in flight.
\* The call in flight keeps the session list of its render.
handleSend ==
  /\ ~chat.isLoading
  /\ chat.sends < MaxSends
  /\ LET now == chat.clock + 1
         userMsg == Msg("user", now)
         newMessages == Append(chat.messages, userMsg)
         activeId == IF chat.currentSessionId = None THEN now
                     ELSE chat.currentSessionId
         persisted ==
           IF chat.currentSessionId = None
             THEN createNewSession(chat.sessions, now, userMsg)
           ELSE updateSessionInStorage(chat.sessions, activeId, newMessages)
     IN /\ chat' = [chat EXCEPT
               !.messages = newMessages,
               !.isLoading = TRUE,
               !.sessions = persisted,
               !.stored = persisted,
               !.unparsable = FALSE,
               !.currentSessionId = activeId,
               !.pending = <<[activeId |-> activeId,
                              created |-> chat.currentSessionId = None,
                              newMessages |-> newMessages,
                              sessions |-> chat.sessions]>>,
               !.clock = now,
               !.sends = @ + 1]
        /\ ChatDid("send", activeId)

\* sendChatMessage returns: the answer is shown and written back
sendResolved ==
  /\ chat.pending # <<>>
  /\ LET call == chat.pending[1]
         now == chat.clock + 1
         finalMessages == Append(call.newMessages, Msg("model", now))
         persisted == updateSessionInStorage(call.sessions, call.activeId,
                                             finalMessages)
     IN /\ chat' = [chat EXCEPT
               !.messages = finalMessages,
               !.sessions = persisted,
               !.stored = persisted,
               !.unparsable = FALSE,
               !.isLoading = FALSE,
               !.pending = <<>>,
               !.clock = now]
        /\ ChatDid("sendResolved", call.activeId)

\* sendChatMessage fails: handleSend has no catch, so nothing after the
\* await runs
sendRejected ==
  /\ chat.pending # <<>>
  /\ chat' = [chat EXCEPT !.pending = <<>>]
  /\ ChatDid("sendRejected", chat.pending[1].activeId)

\* the delete button of a session row
deleteSession ==
  /\ chat.deletes < MaxDeletes
  /\ \E k \in Rows(chat.sessions) :
       LET id == chat.sessions[k].id
           updated == SelectSeq(chat.sessions, LAMBDA x : x.id # id)
       IN /\ chat' = [chat EXCEPT
                 !.sessions = updated,
                 !.stored = updated,
                 !.unparsable = FALSE,
                 !.messages = IF chat.currentSessionId = id THEN <<>> ELSE @,
                 !.currentSessionId =
                     IF chat.currentSessionId = id THEN None ELSE @,
                 !.deletes = @ + 1,
                 !.deleted = @ \cup {id}]
          /\ ChatDid("deleteSession", id)

\* a click on a session row
loadSession ==
  \E k \in Rows(chat.sessions) :
    /\ chat.currentSessionId # chat.sessions[k].id
    /\ chat' = [chat EXCEPT !.messages = chat.sessions[k].messages,
                            !.currentSessionId = chat.sessions[k].id]
    /\ ChatDid("loadSession", chat.sessions[k].id)

\* the New Chat button
startNewChat ==
  /\ chat.currentSessionId # None \/ chat.messages # <<>>
  /\ chat' = [chat EXCEPT !.messages = <<>>, !.currentSessionId = None]
  /\ ChatDid("startNewChat", "")

ChatNext ==
  \/ handleSend
  \/ sendResolved
  \/ sendRejected
  \/ deleteSession
  \/ loadSession
  \/ startNewChat

ChatSpec == ChatInit /\ [][ChatNext]_vars

\* C19: the stored session list never holds more sessions than the cap,
\* taken to be that of the image gallery, and a session created when the
\* list is at the cap takes the place of the oldest one.
C19_SessionsCapped ==
  /\ Len(chat.stored) <= GalleryLimit
  /\ Len(chat.sessions) <= GalleryLimit
  /\ last.op = "send" /\ last.pre.currentSessionId = None
       /\ Len(last.pre.sessions) = GalleryLimit =>
         Tail(chat.sessions) = SubSeq(last.pre.sessions, 1, GalleryLimit - 1)

\* C20: after a remote call has failed, the busy flag of its operation is
\* clear again: isPlanning, the item's 'generating' status, isGenerating,
\* isLoading and isAnalyzing.
C20_FailureClearsBusyFlag ==
  /\ last.op = "planRejected" => ~info.isPlanning
  /\ last.op = "imageRejected" =>
       \A k \in DOMAIN info.items :
         info.items[k].id = last.arg => info.items[k].status # "generating"
  /\ last.op = "actionRejected" => ~gal.isGenerating
  /\ last.op = "sendRejected" => ~chat.isLoading
  /\ last.op = "analyzeRejected" => ~isAnalyzing

(***************************************************************************)
(* The load effects of ChatSection (lines 76-86) and of ImageStudio        *)
(* (lines 63-72): on mount the saved text is read from local storage and   *)
(* parsed inside a try block.                                              *)
(***************************************************************************)

\* ImageStudio and ChatSection constructed, their effects not yet run:
\* stored is what was saved, unparsable that its text no longer parses
GalConstructed(stored, unparsable) ==
  [GalMounted(stored) EXCEPT !.gallery = <<>>, !.mounted = FALSE,
                             !.unparsable = unparsable]

ChatConstructed(stored, unparsable) ==
  [ChatMounted(stored) EXCEPT !.sessions = <<>>, !.mounted = FALSE,
                              !.unparsable = unparsable]

LoadedGalleryUncaught(g) ==
  [g EXCEPT !.gallery = g.stored, !.mounted = TRUE]

\* try { setGallery(JSON.parse(saved)) } catch (e) { console.error(...) }
LoadedGallery(g) ==
  [g EXCEPT !.gallery = IF g.unparsable THEN @ ELSE g.stored,
            !.mounted = TRUE]

\* try { setSessions(JSON.parse(saved)) } catch (e) { console.error(...) }
LoadedSessions(c) ==
  [c EXCEPT !.sessions = IF c.unparsable THEN @ ELSE c.stored,
            !.mounted = TRUE]

MountInit ==
  /\ WizardStart
  /\ info = InfoStart
  /\ doc = DocStart
  /\ \E n \in 0..GalleryLimit, bad \in BOOLEAN :
       gal = GalConstructed(StoredGallery(n), bad)
  /\ \E n \in 0..GalleryLimit, bad \in BOOLEAN :
       chat = ChatConstructed(StoredSessions(n), bad)

\* the load effect of ImageStudio
loadImageHistory ==
  /\ ~gal.mounted
  /\ gal' = LoadedGallery(gal)
  /\ GalDid("loadImageHistory", gal.unparsable)

\* the load effect of ChatSection
loadChatHistory ==
  /\ ~chat.mounted
  /\ chat' = LoadedSessions(chat)
  /\ ChatDid("loadChatHistory", chat.unparsable)

MountNext ==
  \/ loadImageHistory
  \/ loadChatHistory

MountSpec == MountInit /\ [][MountNext]_vars

\* C21: a load effect that finds an unparsable text leaves its component
\* as the effect leaves it when nothing was saved: the gallery or the
\* session list is empty and every other field is as it was constructed;
\* the other component is not touched.
C21_UnparsableHistoryIsNoHistory ==
  /\ last.op = "loadImageHistory" /\ last.arg =>
       /\ gal.gallery = <<>>
       /\ gal = [last.pre EXCEPT !.mounted = TRUE]
       /\ gal = [GalMounted(<<>>) EXCEPT
                   !.stored = gal.stored, !.unparsable = TRUE,
                   !.clock = gal.clock]
  /\ last.op = "loadChatHistory" /\ last.arg =>
       /\ chat.sessions = <<>>
       /\ chat = [last.pre EXCEPT !.mounted = TRUE]
       /\ chat = [ChatMounted(<<>>) EXCEPT
                    !.stored = chat.stored, !.unparsable = TRUE,
                    !.clock = chat.clock]

\* both components were mounted on saved histories that do not parse
C21_Witness ==
  /\ last.op = "loadChatHistory"
  /\ last.arg
  /\ Len(chat.stored) > 0
  /\ chat.mounted
  /\ gal.mounted
  /\ gal.unparsable
  /\ Len(gal.stored) > 0

(* ------------------- ChatRichText: quotes and code --------------------- *)

\* a line without the '> ' markers it starts with
RECURSIVE WithoutLeadingQuote(_)
WithoutLeadingQuote(line) ==
  IF StartsWith(line, "> ") THEN WithoutLeadingQuote(Drop(line, 2)) ELSE line

\* lines put together again
RECURSIVE JoinLines(_)
JoinLines(lines) ==
  IF Len(lines) = 1 THEN lines[1]
  ELSE lines[1] \o "\n" \o JoinLines(Tail(lines))

\* C22: the text of a Blockquote is its block with the '> ' markers at
\* the start of its lines stripped and every other '> ' kept.
C22_OnlyLeadingQuoteMarkersStripped ==
  doc.rendered =>
    \A b \in DOMAIN doc.out :
      doc.out[b].kind = "Blockquote" =>
        LET lines == SplitOn(doc.out[b].src, "\n")
        IN doc.out[b].text =
             JoinLines([k \in DOMAIN lines |-> WithoutLeadingQuote(lines[k])])

\* the text is one fenced code block: it opens and closes with a fence
Fenced(text) ==
  /\ Len(text) >= 2 * Len(Fence)
  /\ StartsWith(text, Fence)
  /\ EndsWith(text, Fence)

\* C23: a fenced text is rendered as one CodeBlock whose content is the
\* text between the opening fence with its language tag and the closing
\* fence, with no inline spans.
C23_FencedTextIsOneCodeBlock ==
  doc.rendered /\ Fenced(doc.text) =>
    /\ Len(doc.out) = 1
    /\ doc.out[1].kind = "CodeBlock"
    /\ doc.out[1].text = CodeContent(doc.text)
    /\ doc.out[1].spans = <<>>

(* ---------------------- ChatSection: late answers ----------------------- *)

\* the ids of a session list
Ids(sessions) == {sessions[k].id : k \in DOMAIN sessions}

\* the call whose answer the last step wrote back
AnsweredCall == last.pre.pending[1]

\* C24: when the answer to a message sent in a new chat arrives, the
\* session created at send time is at the top of the session list and of
\* the stored list and holds the user message and the answer.
C24_NewSessionKeepsAnswer ==
  last.op = "sendResolved" /\ AnsweredCall.created =>
    /\ chat.stored # <<>>
    /\ chat.stored[1].id = AnsweredCall.activeId
    /\ Len(chat.stored[1].messages) = Len(AnsweredCall.newMessages) + 1
    /\ chat.sessions = chat.stored

\* C25: a session deleted with deleteSession is neither in the session
\* list nor in local storage ever after.
C25_DeletedSessionStaysDeleted ==
  /\ Ids(chat.sessions) \cap chat.deleted = {}
  /\ Ids(chat.stored) \cap chat.deleted = {}

\* C26: an answer that arrives when the session it was sent from is no
\* longer the current one is not put on the page: the displayed messages
\* stay those of the session or new chat the user went to.
C26_LateAnswerNotShownElsewhere ==
  last.op = "sendResolved"
    /\ last.pre.currentSessionId # AnsweredCall.activeId =>
      chat.messages = last.pre.messages

(***************************************************************************)
(* StoryWizard: what holds of the answers at every step, and of a file     *)
(* read that ends after the session it began in.                           *)
(***************************************************************************)

\* the questions before step s all have a non-empty answer
AnsweredBefore(s) == \A j \in 0..(s - 1) : Truthy(answers, Question(j).id)

\* C27: in every state with mode WIZARD and step s >= 1 the answers of
\* questions 0..s-1 are all non-empty; at Review (s = N) every question
\* has a non-empty answer.
C27_EarlierQuestionsAnswered ==
  mode = "WIZARD" /\ step >= 1 => AnsweredBefore(step)

\* Review is reached by Next after an answer was emptied and typed again
C27_Witness ==
  /\ mode = "WIZARD" /\ step = N
  /\ last.op = "next"
  /\ clears > 0
  /\ AnsweredBefore(N)

\* C28: a session started with startNew never acquires the existing-content
\* key: no operation but startContinue adds the key to answers that lack
\* it, a file read that ends late included, and back from Question(0)
\* without the key returns to Select.
C28_FreshSessionHasNoExistingContent ==
  /\ (last.op # "startContinue" /\ ExistingContent \notin DOMAIN last.pre.answers)
       => ExistingContent \notin DOMAIN answers
  /\ (StartedAt("back", 0) /\ ExistingContent \notin DOMAIN last.pre.answers)
       => mode = "SELECT"

(***************************************************************************)
(* InfographicStudio: several requests for one item id.                    *)
(***************************************************************************)

\* the request issued last for the item id (requests are kept in the
\* order in which they were issued)
NewestRequest(id) == SetMax(RequestsFor(id))

\* C29: the status and the image of an item reflect the request issued
\* last for its id: once that request has settled the item is 'done' with
\* that request's image if it succeeded and 'failed' if it failed, whatever
\* older requests for the id do afterwards.
C29_NewestRequestWins ==
  \A k \in DOMAIN info.items :
    LET id == info.items[k].id IN
    RequestsFor(id) # {} =>
      LET r == NewestRequest(id) IN
      /\ info.requests[r].state = "ok" =>
           /\ info.items[k].status = "done"
           /\ info.items[k].imageData = ImageOf(r)
      /\ info.requests[r].state = "failed" =>
           info.items[k].status = "failed"

(***************************************************************************)
(* ImageStudio: a delete confirmed while an action is in flight.           *)
(***************************************************************************)

\* C30: an entry removed by a confirmed delete is in neither the gallery
\* nor local storage from then on, an auto-save that comes after the
\* delete included; opening the dialog and cancelling it leave the gallery
\* and local storage as they were.
C30_DeletedImageStaysDeleted ==
  /\ Ids(gal.gallery) \cap gal.deleted = {}
  /\ Ids(gal.stored) \cap gal.deleted = {}
  /\ last.op \in {"requestDelete", "cancelDelete"} =>
       gal.gallery = last.pre.gallery /\ gal.stored = last.pre.stored

====
